---- MODULE Spec2Model ----
(***************************************************************************)
(* Model of robot_io: the pose / orientation transform library             *)
(* (robot_io/utils/utils.py) and the camera manager                        *)
(* (robot_io/cams/camera_manager.py).                                      *)
(*                                                                         *)
(* Numbers.  Rotations are taken from the 24 proper rotations of the cube, *)
(* whose matrices have integer entries, so every matrix product, inverse   *)
(* and determinant of the code is computed exactly.                        *)
(*   - an angle is an integer counting quarter turns (1 = pi/2), except in *)
(*     angle_between_angles, which counts eighth turns (see PI);           *)
(*   - a numeric array is a record [kind |-> "array", c |-> tuple, s |-> n]*)
(*     standing for the real vector c / sqrt(s); s = 1 for every array but *)
(*     a quaternion that scipy has normalised, e.g. the unit quaternion of *)
(*     a quarter turn about z is c = <<0,0,1,1>>, s = 2;                   *)
(*   - an np.quaternion object is [kind |-> "npquat", c |-> <<w,x,y,z>>,   *)
(*     s |-> n]; Python's None is [kind |-> "none"].                       *)
(* A function's local variables are the parameters of the operators local *)
(* to its definition, bound in the order the code assigns them.            *)
(* A call returns Ok(value) or Raise(exception name).                      *)
(***************************************************************************)
EXTENDS Integers, Sequences, FiniteSets, TLC

\* a client of the pure functions: its pending call and what came back
VARIABLES pc, call, ret, ret2
\* the Python heap seen by callers that share arrays and dicts
VARIABLES mem, dicts, cpc, crec
\* a CameraManager, the calls it made on its cameras, and the archive
VARIABLES mgr, queries, archive, outcome

libVars == <<pc, call, ret, ret2>>
memVars == <<mem, dicts, cpc, crec>>
camVars == <<mgr, queries, archive, outcome>>
vars == <<pc, call, ret, ret2, mem, dicts, cpc, crec, mgr, queries, archive, outcome>>

(* ------------------------------ bounds --------------------------------- *)
\* largest quarter-turn count of an Euler angle drawn as input
MaxAng == 1
\* largest component of a quaternion drawn as input
MaxQ == 1
\* positions drawn as input are <<k, 2k, 3k>>, k \in 0..MaxStep
MaxStep == 1
\* angles given to angle_between_angles range over -MaxTurn*2*PI .. MaxTurn*2*PI
MaxTurn == 1

(* --------------------------- results of calls -------------------------- *)
Ok(v) == [tag |-> "ok", val |-> v]
Raise(e) == [tag |-> "raise", exc |-> e]
IsOk(r) == r.tag = "ok"

Arr(c) == [kind |-> "array", c |-> c, s |-> 1]
ArrS(c, s) == [kind |-> "array", c |-> c, s |-> s]
NpQuat(c, s) == [kind |-> "npquat", c |-> c, s |-> s]
None == [kind |-> "none"]

(* --------------------------- linear algebra ---------------------------- *)
Abs(x) == IF x < 0 THEN -x ELSE x

SumSq(c) == c[1]*c[1] + c[2]*c[2] + c[3]*c[3] + c[4]*c[4]

\* np.eye(3)
Eye3 == << <<1, 0, 0>>, <<0, 1, 0>>, <<0, 0, 1>> >>

\* A @ B for 3x3 matrices
Dot(A, i, B, j) == A[i][1]*B[1][j] + A[i][2]*B[2][j] + A[i][3]*B[3][j]

MatMul(A, B) ==
    << <<Dot(A, 1, B, 1), Dot(A, 1, B, 2), Dot(A, 1, B, 3)>>,
       <<Dot(A, 2, B, 1), Dot(A, 2, B, 2), Dot(A, 2, B, 3)>>,
       <<Dot(A, 3, B, 1), Dot(A, 3, B, 2), Dot(A, 3, B, 3)>> >>

\* A @ v for a 3x3 matrix and a 3-vector
MatVec(A, v) ==
    << A[1][1]*v[1] + A[1][2]*v[2] + A[1][3]*v[3],
       A[2][1]*v[1] + A[2][2]*v[2] + A[2][3]*v[3],
       A[3][1]*v[1] + A[3][2]*v[2] + A[3][3]*v[3] >>

VecSub(a, b) == <<a[1] - b[1], a[2] - b[2], a[3] - b[3]>>

Transpose(A) ==
    << <<A[1][1], A[2][1], A[3][1]>>,
       <<A[1][2], A[2][2], A[3][2]>>,
       <<A[1][3], A[2][3], A[3][3]>> >>

Det3(A) ==
      A[1][1] * (A[2][2]*A[3][3] - A[2][3]*A[3][2])
    - A[1][2] * (A[2][1]*A[3][3] - A[2][3]*A[3][1])
    + A[1][3] * (A[2][1]*A[3][2] - A[2][2]*A[3][1])

\* the cofactor of A at row i, column j
Cofactor(A, i, j) ==
    LET r1 == (i % 3) + 1
        r2 == ((i + 1) % 3) + 1
        c1 == (j % 3) + 1
        c2 == ((j + 1) % 3) + 1
    IN  A[r1][c1]*A[r2][c2] - A[r1][c2]*A[r2][c1]

\* np.linalg.inv: the general inverse adj(A) / det(A).  Every matrix the
\* code inverts is a rotation of the cube group, so the division is exact.
MatInv(A) ==
    LET Adj(d) ==
            << <<Cofactor(A, 1, 1) \div d, Cofactor(A, 2, 1) \div d,
                 Cofactor(A, 3, 1) \div d>>,
               <<Cofactor(A, 1, 2) \div d, Cofactor(A, 2, 2) \div d,
                 Cofactor(A, 3, 2) \div d>>,
               <<Cofactor(A, 1, 3) \div d, Cofactor(A, 2, 3) \div d,
                 Cofactor(A, 3, 3) \div d>> >>
    IN  Adj(Det3(A))

(* ------------------------ scipy Rotation (R) --------------------------- *)
\* cos and sin of k quarter turns
Cos(k) == CASE k % 4 = 0 -> 1 [] k % 4 = 2 -> -1 [] OTHER -> 0
Sin(k) == CASE k % 4 = 1 -> 1 [] k % 4 = 3 -> -1 [] OTHER -> 0

Rx(k) == << <<1, 0, 0>>, <<0, Cos(k), -Sin(k)>>, <<0, Sin(k), Cos(k)>> >>
Ry(k) == << <<Cos(k), 0, Sin(k)>>, <<0, 1, 0>>, <<-Sin(k), 0, Cos(k)>> >>
Rz(k) == << <<Cos(k), -Sin(k), 0>>, <<Sin(k), Cos(k), 0>>, <<0, 0, 1>> >>

\* R.from_euler('xyz', e).as_matrix(): lower-case axes are extrinsic
\* rotations about x, then y, then z.
EulerToMat(e) == MatMul(Rz(e[3]), MatMul(Ry(e[2]), Rx(e[1])))

\* R.from_quat(q).as_matrix() for q = <<x, y, z, w>>: scipy divides the
\* quaternion by its norm first, so the matrix is the homogeneous form over
\* the squared norm (the scale s of the array cancels).
QuatNum(q) ==
    LET x == q[1]  y == q[2]  z == q[3]  w == q[4]
    IN  << << x*x - y*y - z*z + w*w, 2*(x*y - z*w), 2*(x*z + y*w) >>,
           << 2*(x*y + z*w), -x*x + y*y - z*z + w*w, 2*(y*z - x*w) >>,
           << 2*(x*z - y*w), 2*(y*z + x*w), -x*x - y*y + z*z + w*w >> >>

QuatToMat(q) ==
    LET Over(N, n) ==
            << <<N[1][1] \div n, N[1][2] \div n, N[1][3] \div n>>,
               <<N[2][1] \div n, N[2][2] \div n, N[2][3] \div n>>,
               <<N[3][1] \div n, N[3][2] \div n, N[3][3] \div n>> >>
    IN  Over(QuatNum(q), SumSq(q))

\* the largest of 1..4 dividing every component of u
CommonDiv(u) ==
    CHOOSE g \in 1..4 :
        /\ \A i \in 1..4 : u[i] % g = 0
        /\ \A h \in 1..4 : (\A i \in 1..4 : u[i] % h = 0) => h <= g

\* index of the first maximum of a 4-tuple (np.argmax), 1-based
ArgMax(d) ==
    CHOOSE i \in 1..4 :
        /\ \A j \in 1..4 : d[j] <= d[i]
        /\ \A j \in 1..(i-1) : d[j] < d[i]

\* R.from_matrix(M).as_quat(): scipy's branch on the largest of the three
\* diagonal entries and the trace, then division by the norm.  The result
\* is the unit quaternion c / sqrt(s), in xyzw order.
MatToQuat(M) ==
    LET Unit(c) == ArrS(c, SumSq(c))
        Reduce(u, g) == Unit(<<u[1] \div g, u[2] \div g, u[3] \div g, u[4] \div g>>)
        At(n, tr, i, j, k) ==
            CASE n = i -> 1 - tr + 2*M[i][i]
              [] n = j -> M[j][i] + M[i][j]
              [] n = k -> M[k][i] + M[i][k]
              [] OTHER -> M[k][j] - M[j][k]
        Branch(tr, i, j, k) ==
            <<At(1, tr, i, j, k), At(2, tr, i, j, k),
              At(3, tr, i, j, k), At(4, tr, i, j, k)>>
        Raw(tr, ch) ==
            IF ch = 4
            THEN << M[3][2] - M[2][3], M[1][3] - M[3][1],
                    M[2][1] - M[1][2], 1 + tr >>
            ELSE Branch(tr, ch, (ch % 3) + 1, (((ch % 3) + 1) % 3) + 1)
        Scaled(u) == Reduce(u, CommonDiv(u))
        Decide(tr) == Scaled(Raw(tr, ArgMax(<<M[1][1], M[2][2], M[3][3], tr>>)))
    IN  Decide(M[1][1] + M[2][2] + M[3][3])

\* math.atan2 in quarter turns, on the coordinates a cube rotation has
Atan2(y, x) ==
    CASE y = 0 /\ x > 0 -> 0
      [] y > 0 /\ x = 0 -> 1
      [] y = 0 /\ x < 0 -> 2
      [] y < 0 /\ x = 0 -> -1
      [] OTHER -> 0

\* R.from_matrix(M).as_euler('xyz'): the middle angle lies in [-pi/2, pi/2];
\* at gimbal lock (middle angle +-pi/2) scipy sets the third angle to zero.
MatToEuler(M) ==
    IF Abs(M[3][1]) = 1
    THEN << Atan2(-M[2][3], M[2][2]), -M[3][1], 0 >>
    ELSE << Atan2(M[3][2], M[3][3]), 0, Atan2(M[2][1], M[1][1]) >>

(* ----------------------- robot_io/utils/utils.py ----------------------- *)
\* np.pi in eighth turns, the unit of angle_between_angles' arguments
PI == 4

\* the difference left unwrapped
angle_between_angles_unwrapped(a, b) == b - a

\* angle_between_angles(a, b); Python's % takes the sign of the divisor
angle_between_angles(a, b) ==
    LET diff == b - a
    IN  ((diff + PI) % (2 * PI)) - PI

\* np_quat_to_scipy_quat(quat): wxyz to xyzw
np_quat_to_scipy_quat(quat) ==
    ArrS(<<quat.c[2], quat.c[3], quat.c[4], quat.c[1]>>, quat.s)

\* scipy_quat_to_np_quat(quat): xyzw to wxyz
scipy_quat_to_np_quat(quat) ==
    NpQuat(<<quat.c[4], quat.c[1], quat.c[2], quat.c[3]>>, quat.s)

\* R.from_quat(quat): scipy raises ValueError unless the argument has four
\* components, and on a quaternion of zero norm; any other norm is
\* normalised.  The value is the rotation matrix.
from_quat(quat) ==
    IF quat.kind # "array" \/ Len(quat.c) # 4
    THEN Raise("ValueError")
    ELSE IF SumSq(quat.c) = 0
         THEN Raise("ValueError")
         ELSE Ok(QuatToMat(quat.c))

\* euler_to_quat(euler_angles)
euler_to_quat(euler_angles) == Ok(MatToQuat(EulerToMat(euler_angles.c)))

\* quat_to_euler(quat)
quat_to_euler(quat) ==
    LET AsEuler(r) == IF IsOk(r) THEN Ok(Arr(MatToEuler(r.val))) ELSE r
    IN  AsEuler(from_quat(quat))

\* the np.quaternion branch without its wxyz-to-xyzw reordering
OrnDispatch_no_reorder(orn) ==
    IF orn.kind = "npquat"
    THEN from_quat(ArrS(orn.c, orn.s))
    ELSE IF orn.kind = "none"
         THEN Raise("TypeError")
         ELSE IF Len(orn.c) = 4
              THEN from_quat(orn)
              ELSE IF Len(orn.c) = 3
                   THEN Ok(EulerToMat(orn.c))
                   ELSE Ok(Eye3)

\* the if / elif chain shared by pos_orn_to_matrix and orn_to_matrix: the
\* rotation block, which stays np.eye when no branch is taken.  len(None)
\* raises TypeError.
OrnDispatch(orn) ==
    IF orn.kind = "npquat"
    THEN from_quat(np_quat_to_scipy_quat(orn))
    ELSE IF orn.kind = "none"
         THEN Raise("TypeError")
         ELSE IF Len(orn.c) = 4
              THEN from_quat(orn)
              ELSE IF Len(orn.c) = 3
                   THEN Ok(EulerToMat(orn.c))
                   ELSE Ok(Eye3)

\* orn_to_matrix(orn)
orn_to_matrix(orn) == OrnDispatch(orn)

\* pos_orn_to_matrix(pos, orn): the 4x4 matrix as its rotation block, its
\* last column and its bottom row
pos_orn_to_matrix(pos, orn) ==
    LET Fill(r) ==
            IF IsOk(r)
            THEN Ok([rot |-> r.val, col |-> pos, bottom |-> <<0, 0, 0, 1>>])
            ELSE r
    IN  Fill(OrnDispatch(orn))

\* matrix_to_orn(mat)
matrix_to_orn(mat) == MatToQuat(mat)

\* the quaternion handed back scalar-first
matrix_to_pos_orn_wxyz(mat) ==
    LET Pair(pos, orn) ==
            <<pos, ArrS(<<orn.c[4], orn.c[1], orn.c[2], orn.c[3]>>, orn.s)>>
    IN  Pair(mat.col, MatToQuat(mat.rot))

\* matrix_to_pos_orn(mat)
matrix_to_pos_orn(mat) ==
    LET Pair(pos, orn) == <<pos, orn>>
    IN  Pair(mat.col, MatToQuat(mat.rot))

\* line 178 without its np.linalg.inv
to_tcp_frame_no_inverse(rel_action_pos, rel_action_orn, tcp_orn) ==
    LET Result(pos_tcp_rel, orn_tcp_rel) == Ok(<<pos_tcp_rel, orn_tcp_rel.val>>)
        Frames(T_tcp_world, T_world_tcp, T_world_tcp_new) ==
            Result(MatVec(T_tcp_world, rel_action_pos),
                   quat_to_euler(matrix_to_orn(
                       MatMul(T_world_tcp, T_world_tcp_new))))
        Matrices(m_tcp, m_rel) ==
            IF ~IsOk(m_tcp) THEN m_tcp
            ELSE IF ~IsOk(m_rel) THEN m_rel
            ELSE Frames(MatInv(m_tcp.val), m_tcp.val, MatMul(m_rel.val, m_tcp.val))
    IN  Matrices(orn_to_matrix(tcp_orn), orn_to_matrix(rel_action_orn))

\* to_tcp_frame(rel_action_pos, rel_action_orn, tcp_orn)
to_tcp_frame(rel_action_pos, rel_action_orn, tcp_orn) ==
    LET Result(pos_tcp_rel, orn_tcp_rel) == Ok(<<pos_tcp_rel, orn_tcp_rel.val>>)
        Frames(T_tcp_world, T_world_tcp, T_world_tcp_new) ==
            Result(MatVec(T_tcp_world, rel_action_pos),
                   quat_to_euler(matrix_to_orn(
                       MatMul(MatInv(T_world_tcp), T_world_tcp_new))))
        Matrices(m_tcp, m_rel) ==
            IF ~IsOk(m_tcp) THEN m_tcp
            ELSE IF ~IsOk(m_rel) THEN m_rel
            ELSE Frames(MatInv(m_tcp.val), m_tcp.val, MatMul(m_rel.val, m_tcp.val))
    IN  Matrices(orn_to_matrix(tcp_orn), orn_to_matrix(rel_action_orn))

\* line 167 without its np.linalg.inv
to_world_frame_no_inverse(rel_action_pos, rel_action_orn, tcp_orn) ==
    LET Result(pos_w_rel, orn_w_rel) == Ok(<<pos_w_rel, orn_w_rel.val>>)
        Frames(T_world_tcp_old, T_world_tcp_new) ==
            Result(MatVec(T_world_tcp_old, rel_action_pos),
                   quat_to_euler(matrix_to_orn(
                       MatMul(T_world_tcp_old, MatInv(T_world_tcp_new)))))
        Matrices(m_tcp, m_rel) ==
            IF ~IsOk(m_tcp) THEN m_tcp
            ELSE IF ~IsOk(m_rel) THEN m_rel
            ELSE Frames(m_tcp.val, MatMul(m_tcp.val, m_rel.val))
    IN  Matrices(orn_to_matrix(tcp_orn), orn_to_matrix(rel_action_orn))

\* to_world_frame(rel_action_pos, rel_action_orn, tcp_orn)
to_world_frame(rel_action_pos, rel_action_orn, tcp_orn) ==
    LET Result(pos_w_rel, orn_w_rel) == Ok(<<pos_w_rel, orn_w_rel.val>>)
        Frames(T_world_tcp_old, T_world_tcp_new) ==
            Result(MatVec(T_world_tcp_old, rel_action_pos),
                   quat_to_euler(matrix_to_orn(
                       MatMul(T_world_tcp_old, MatInv(T_world_tcp_new)))))
        Matrices(m_tcp, m_rel) ==
            IF ~IsOk(m_tcp) THEN m_tcp
            ELSE IF ~IsOk(m_rel) THEN m_rel
            ELSE Frames(m_tcp.val, MatMul(m_tcp.val, MatInv(m_rel.val)))
    IN  Matrices(orn_to_matrix(tcp_orn), orn_to_matrix(rel_action_orn))

\* the deltas left in the world frame
to_relative_world(pos_old, orn_old, pos_new, orn_new) ==
    LET Result(rel_pos, rel_orn) == Ok(<<rel_pos, rel_orn.val>>)
        Matrices(m_orn_new, m_orn_old) ==
            IF ~IsOk(m_orn_new) THEN m_orn_new
            ELSE IF ~IsOk(m_orn_old) THEN m_orn_old
            ELSE Result(VecSub(pos_new, pos_old),
                        quat_to_euler(matrix_to_orn(
                            MatMul(m_orn_new.val, MatInv(m_orn_old.val)))))
    IN  Matrices(orn_to_matrix(orn_new), orn_to_matrix(orn_old))

\* to_relative(pos_old, orn_old, pos_new, orn_new)
to_relative(pos_old, orn_old, pos_new, orn_new) ==
    LET Result(rel_pos, rel_orn) == to_tcp_frame(rel_pos, rel_orn.val, orn_old)
        Matrices(m_orn_new, m_orn_old) ==
            IF ~IsOk(m_orn_new) THEN m_orn_new
            ELSE IF ~IsOk(m_orn_old) THEN m_orn_old
            ELSE Result(VecSub(pos_new, pos_old),
                        quat_to_euler(matrix_to_orn(
                            MatMul(m_orn_new.val, MatInv(m_orn_old.val)))))
    IN  Matrices(orn_to_matrix(orn_new), orn_to_matrix(orn_old))

\* to_relative_all_frames(pos_old, orn_old, pos_new, orn_new)
to_relative_all_frames(pos_old, orn_old, pos_new, orn_new) ==
    LET Both(rel_pos, rel_orn, g) ==
            Ok([world_frame |-> <<rel_pos, rel_orn.val>>,
                gripper_frame |-> g.val])
        Result(rel_pos, rel_orn) ==
            Both(rel_pos, rel_orn, to_tcp_frame(rel_pos, rel_orn.val, orn_old))
        Matrices(m_orn_new, m_orn_old) ==
            IF ~IsOk(m_orn_new) THEN m_orn_new
            ELSE IF ~IsOk(m_orn_old) THEN m_orn_old
            ELSE Result(VecSub(pos_new, pos_old),
                        quat_to_euler(matrix_to_orn(
                            MatMul(m_orn_new.val, MatInv(m_orn_old.val)))))
    IN  Matrices(orn_to_matrix(orn_new), orn_to_matrix(orn_old))

(* ------------------------------ inputs -------------------------------- *)
\* positions with pairwise distinct component sizes, so that every rotation
\* of the cube group moves a non-zero difference of two of them differently
PosIn == {<<k, 2*k, 3*k>> : k \in 0..MaxStep}

\* Euler-xyz triples, in quarter turns
EulerIn == {Arr(<<a, b, c>>) : a, b, c \in 0..MaxAng}

\* the rotation matrix of a quaternion has integer entries
InCubeGroup(q) ==
    /\ SumSq(q) > 0
    /\ \A i, j \in 1..3 : QuatNum(q)[i][j] % SumSq(q) = 0

QuatComps ==
    {q \in {<<x, y, z, w>> : x, y, z, w \in 0..MaxQ} : InCubeGroup(q)}

\* 4-component arrays, read by the code as xyzw: each as the raw integer
\* array (s = 1, of norm sqrt(SumSq)) and as the unit quaternion
QuatIn == {ArrS(q, s) : q \in QuatComps, s \in {1}} \cup
          {ArrS(q, SumSq(q)) : q \in QuatComps}

\* np.quaternion objects, wxyz
NpQuatIn == {NpQuat(q.c, q.s) : q \in QuatIn}

\* the orientations the docstring of pos_orn_to_matrix lists
OrnIn == EulerIn \cup QuatIn \cup NpQuatIn

\* arguments outside the docstring: None, other lengths, a zero quaternion
OddIn == {None, Arr(<<>>), Arr(<<0, 1>>), Arr(<<0, 0, 0, 0, 1>>),
          Arr(<<0, 0, 0, 0>>), NpQuat(<<0, 0, 0, 0>>, 1)}

AngleIn == (-(2 * PI * MaxTurn))..(2 * PI * MaxTurn)

\* the calls a client may make, one per run
IsCall(c) ==
    \/ \E p1 \in PosIn, o1 \in OrnIn, p2 \in PosIn, o2 \in OrnIn :
          c = [fn |-> "to_relative", pos_old |-> p1, orn_old |-> o1,
               pos_new |-> p2, orn_new |-> o2]
    \/ \E p \in PosIn, o \in OrnIn, t \in OrnIn :
          c = [fn |-> "to_tcp_frame", rel_pos |-> p, rel_orn |-> o, tcp_orn |-> t]
    \/ \E a \in AngleIn, b \in AngleIn :
          c = [fn |-> "angle_between_angles", a |-> a, b |-> b]
    \/ \E p \in PosIn, o \in OrnIn \cup OddIn :
          c = [fn |-> "pos_orn_to_matrix", pos |-> p, orn |-> o]
    \/ \E o \in OrnIn \cup OddIn :
          c = [fn |-> "orn_to_matrix", orn |-> o]
    \/ \E o \in QuatIn \cup EulerIn \cup OddIn :
          c = [fn |-> "quat_to_euler", quat |-> o]

(* ------------------- the library called by a client -------------------- *)
NoVal == [tag |-> "none"]

\* the variables of the heap and of the camera manager, unused
MemIdle ==
    /\ mem = <<>> /\ dicts = <<>>
    /\ cpc = <<>> /\ crec = <<>>

CamIdle ==
    /\ mgr = NoVal /\ queries = <<>>
    /\ archive = NoVal /\ outcome = NoVal

Init ==
    /\ pc = "call"
    /\ IsCall(call)
    /\ ret = NoVal
    /\ ret2 = NoVal
    /\ MemIdle /\ CamIdle

ToRelative ==
    /\ pc = "call" /\ call.fn = "to_relative"
    /\ ret' = to_relative(call.pos_old, call.orn_old, call.pos_new, call.orn_new)
    /\ pc' = "ret"
    /\ UNCHANGED <<call, ret2, memVars, camVars>>

ToTcpFrame ==
    /\ pc = "call" /\ call.fn = "to_tcp_frame"
    /\ ret' = to_tcp_frame(call.rel_pos, call.rel_orn, call.tcp_orn)
    /\ pc' = "ret"
    /\ UNCHANGED <<call, ret2, memVars, camVars>>

\* to_world_frame(*to_tcp_frame(rel_pos, rel_orn, tcp_orn), tcp_orn)
ToWorldFrame ==
    /\ pc = "ret" /\ call.fn = "to_tcp_frame" /\ IsOk(ret)
    /\ ret2' = to_world_frame(ret.val[1], Arr(ret.val[2].c), call.tcp_orn)
    /\ pc' = "ret2"
    /\ UNCHANGED <<call, ret, memVars, camVars>>

AngleBetweenAngles ==
    /\ pc = "call" /\ call.fn = "angle_between_angles"
    /\ ret' = Ok(angle_between_angles(call.a, call.b))
    /\ pc' = "ret"
    /\ UNCHANGED <<call, ret2, memVars, camVars>>

PosOrnToMatrix ==
    /\ pc = "call" /\ call.fn = "pos_orn_to_matrix"
    /\ ret' = pos_orn_to_matrix(call.pos, call.orn)
    /\ pc' = "ret"
    /\ UNCHANGED <<call, ret2, memVars, camVars>>

\* matrix_to_pos_orn(pos_orn_to_matrix(pos, orn))
MatrixToPosOrn ==
    /\ pc = "ret" /\ call.fn = "pos_orn_to_matrix" /\ IsOk(ret)
    /\ ret2' = Ok(matrix_to_pos_orn(ret.val))
    /\ pc' = "ret2"
    /\ UNCHANGED <<call, ret, memVars, camVars>>

OrnToMatrix ==
    /\ pc = "call" /\ call.fn = "orn_to_matrix"
    /\ ret' = orn_to_matrix(call.orn)
    /\ pc' = "ret"
    /\ UNCHANGED <<call, ret2, memVars, camVars>>

QuatToEuler ==
    /\ pc = "call" /\ call.fn = "quat_to_euler"
    /\ ret' = quat_to_euler(call.quat)
    /\ pc' = "ret"
    /\ UNCHANGED <<call, ret2, memVars, camVars>>

Next ==
    \/ ToRelative
    \/ ToTcpFrame
    \/ ToWorldFrame
    \/ AngleBetweenAngles
    \/ PosOrnToMatrix
    \/ MatrixToPosOrn
    \/ OrnToMatrix
    \/ QuatToEuler

Spec == Init /\ [][Next]_vars

(* ======================= properties of the library ===================== *)
\* the rotation an orientation of one of the three documented forms stands
\* for: np.quaternion as wxyz, 4-array as xyzw, 3-array as Euler xyz
Rot(orn) ==
    CASE orn.kind = "npquat" ->
            QuatToMat(<<orn.c[2], orn.c[3], orn.c[4], orn.c[1]>>)
      [] orn.kind = "array" /\ Len(orn.c) = 4 -> QuatToMat(orn.c)
      [] orn.kind = "array" /\ Len(orn.c) = 3 -> EulerToMat(orn.c)

Documented(orn) ==
    /\ orn.kind \in {"npquat", "array"}
    /\ Len(orn.c) \in {3, 4}
    /\ Len(orn.c) = 4 => SumSq(orn.c) > 0
    /\ orn.kind = "npquat" => Len(orn.c) = 4

Zero3 == <<0, 0, 0>>

\* C1 (frame inverse law): to_world_frame applied to the two outputs of
\* to_tcp_frame(rel_pos, rel_orn, tcp_orn), with the same tcp_orn, returns
\* rel_pos and an orientation whose rotation is the rotation of rel_orn.
C1_FrameInverse ==
    (pc = "ret2" /\ call.fn = "to_tcp_frame") =>
        /\ IsOk(ret2)
        /\ ret2.val[1] = call.rel_pos
        /\ Rot(ret2.val[2]) = Rot(call.rel_orn)

\* the round trip ran on a non-zero delta, a rotation delta and a tool
\* orientation that do not commute
C1_Witness ==
    /\ pc = "ret2" /\ call.fn = "to_tcp_frame"
    /\ call.rel_pos # Zero3
    /\ ret.val[1] # call.rel_pos
    /\ MatMul(Rot(call.rel_orn), Rot(call.tcp_orn))
         # MatMul(Rot(call.tcp_orn), Rot(call.rel_orn))

\* C2: to_relative returns its deltas in the starting tool frame: the
\* position is inverse(R(orn_old)) applied to pos_new - pos_old, the
\* orientation is the rotation inverse(R(orn_old)) @ R(orn_new); with
\* orn_old the identity it is (pos_new - pos_old, rotation of orn_new).
C2_ToolFrame ==
    (pc = "ret" /\ call.fn = "to_relative") =>
        LET Ro == Rot(call.orn_old)
            Rn == Rot(call.orn_new)
            d == VecSub(call.pos_new, call.pos_old)
        IN  /\ IsOk(ret)
            /\ ret.val[1] = MatVec(Transpose(Ro), d)
            /\ Rot(ret.val[2]) = MatMul(Transpose(Ro), Rn)
            /\ Ro = Eye3 => (ret.val[1] = d /\ Rot(ret.val[2]) = Rn)

\* to_relative ran from a tool orientation that is not the identity, to a
\* different position and an orientation that does not commute with it
C2_Witness ==
    /\ pc = "ret" /\ call.fn = "to_relative"
    /\ Rot(call.orn_old) # Eye3
    /\ ret.val[1] # VecSub(call.pos_new, call.pos_old)
    /\ MatMul(Rot(call.orn_new), Rot(call.orn_old))
         # MatMul(Rot(call.orn_old), Rot(call.orn_new))

\* C3 (identity motion): to_relative(p, o, p, o) returns a zero position
\* delta and a zero orientation delta (Euler angles 0, 0, 0), for o a
\* quaternion of either kind or an Euler triple.
C3_IdentityMotion ==
    (/\ pc = "ret" /\ call.fn = "to_relative"
     /\ call.pos_old = call.pos_new /\ call.orn_old = call.orn_new) =>
        /\ IsOk(ret)
        /\ ret.val[1] = Zero3
        /\ ret.val[2] = Arr(Zero3)

\* identity motion at a non-zero position and a quaternion orientation at
\* gimbal lock that is not the identity
C3_Witness ==
    /\ pc = "ret" /\ call.fn = "to_relative"
    /\ call.pos_old = call.pos_new /\ call.orn_old = call.orn_new
    /\ call.pos_old # Zero3
    /\ call.orn_old.kind = "npquat"
    /\ Abs(Rot(call.orn_old)[3][1]) = 1

\* b - a and r differ by a whole number of turns
Congruent(r, a, b) == (r - (b - a)) % (2 * PI) = 0

\* C4 as stated: angle_between_angles(a, b) is the value in (-pi, pi]
\* congruent to b - a modulo 2 pi, so a difference of exactly pi gives +pi.
C4_Original ==
    (pc = "ret" /\ call.fn = "angle_between_angles") =>
        /\ -PI < ret.val /\ ret.val <= PI
        /\ Congruent(ret.val, call.a, call.b)

\* C4 as amended: angle_between_angles(a, b) is the value in [-pi, pi)
\* congruent to b - a modulo 2 pi: a difference of exactly pi gives -pi,
\* angle_between_angles(a, a + 2 pi) is 0, and a difference just above pi
\* gives a value just above -pi.
C4_AngleWrap ==
    (pc = "ret" /\ call.fn = "angle_between_angles") =>
        /\ -PI <= ret.val /\ ret.val < PI
        /\ Congruent(ret.val, call.a, call.b)
        /\ call.b - call.a = PI => ret.val = -PI
        /\ call.b = call.a + 2 * PI => ret.val = 0
        /\ call.b - call.a = PI + 1 => ret.val = -PI + 1

\* a difference of exactly pi was wrapped
C4_Witness ==
    /\ pc = "ret" /\ call.fn = "angle_between_angles"
    /\ call.b - call.a = PI
    /\ call.a # 0

\* C5 (composition consistency): matrix_to_pos_orn(pos_orn_to_matrix(pos,
\* orn)) returns pos and a unit 4-array that, read as xyzw, has the rotation
\* of orn, whichever of the three forms orn has.
C5_ComposeDecompose ==
    (pc = "ret2" /\ call.fn = "pos_orn_to_matrix" /\ Documented(call.orn)) =>
        /\ ret2.val[1] = call.pos
        /\ ret2.val[2].kind = "array"
        /\ Len(ret2.val[2].c) = 4
        /\ SumSq(ret2.val[2].c) = ret2.val[2].s
        /\ QuatToMat(ret2.val[2].c) = Rot(call.orn)

\* a pose built from an np.quaternion whose scalar and vector parts differ
\* was decomposed
C5_Witness ==
    /\ pc = "ret2" /\ call.fn = "pos_orn_to_matrix"
    /\ call.orn.kind = "npquat"
    /\ call.pos # Zero3
    /\ ret2.val[2].c # call.orn.c
    /\ Rot(call.orn) # Transpose(Rot(call.orn))

\* an orientation argument of the wrong arity, or a quaternion whose norm
\* is not 1
IllFormed(orn) ==
    \/ orn.kind = "array" /\ Len(orn.c) \notin {3, 4}
    \/ orn.kind = "array" /\ Len(orn.c) = 4 /\ SumSq(orn.c) # orn.s
    \/ orn.kind = "npquat" /\ SumSq(orn.c) # orn.s

TakesOrn == {"orn_to_matrix", "pos_orn_to_matrix", "quat_to_euler"}

CallOrn == IF call.fn = "quat_to_euler" THEN call.quat ELSE call.orn

\* C6: an ill-formed orientation (arity other than 3 or 4, or a quaternion
\* of norm other than 1) is rejected with InvalidOrientation by
\* orn_to_matrix, pos_orn_to_matrix and quat_to_euler, never converted.
C6_Rejected ==
    (pc = "ret" /\ call.fn \in TakesOrn /\ IllFormed(CallOrn)) =>
        ret = Raise("InvalidOrientation")

\* C7 as stated: np.quaternion is read as wxyz, a 4-array as xyzw, a
\* 3-array as Euler xyz, and an absent orientation (None) yields the
\* identity rotation; pos_orn_to_matrix puts pos in the last column over
\* the bottom row (0, 0, 0, 1).
RotBlock == IF call.fn = "orn_to_matrix" THEN ret.val ELSE ret.val.rot

C7_Accepted ==
    (pc = "ret" /\ call.fn \in {"orn_to_matrix", "pos_orn_to_matrix"}
        /\ Documented(call.orn)) =>
        /\ IsOk(ret)
        /\ RotBlock = Rot(call.orn)
        /\ call.fn = "pos_orn_to_matrix" =>
              (ret.val.col = call.pos /\ ret.val.bottom = <<0, 0, 0, 1>>)

C7_Original ==
    /\ C7_Accepted
    /\ (pc = "ret" /\ call.fn \in {"orn_to_matrix", "pos_orn_to_matrix"}
          /\ call.orn = None) =>
          (IsOk(ret) /\ RotBlock = Eye3)

\* C7 as amended: the three documented forms are dispatched as stated; an
\* absent orientation (None) is not accepted, the call raises TypeError and
\* returns no matrix; an empty array yields the identity rotation.
C7_Dispatch ==
    /\ C7_Accepted
    /\ (pc = "ret" /\ call.fn \in {"orn_to_matrix", "pos_orn_to_matrix"}) =>
          /\ call.orn = None => ret = Raise("TypeError")
          /\ call.orn = Arr(<<>>) => (IsOk(ret) /\ RotBlock = Eye3)

\* pos_orn_to_matrix dispatched an np.quaternion whose wxyz and xyzw
\* readings are different rotations
C7_Witness ==
    /\ pc = "ret" /\ call.fn = "pos_orn_to_matrix"
    /\ call.orn.kind = "npquat"
    /\ SumSq(call.orn.c) > 0
    /\ call.pos # Zero3
    /\ QuatToMat(call.orn.c) # Rot(call.orn)

(* ========================= arrays on the heap ========================== *)
(* mem is the sequence of numpy data buffers [c |-> cells, s |-> scale].   *)
(* An ndarray is a reference [buf |-> buffer, at |-> the cells it shows]:  *)
(* a fresh array shows all cells of a new buffer, a view shows cells of    *)
(* the buffer of the array it was sliced from.  dicts is the sequence of   *)
(* dict objects; a dict holds references, not copies.                      *)
Callers == {1, 2}

Cells3 == <<1, 2, 3>>
Cells4 == <<1, 2, 3, 4>>
Cells16 == <<1, 2, 3, 4, 5, 6, 7, 8, 9, 10, 11, 12, 13, 14, 15, 16>>

Ref(b, at) == [buf |-> b, at |-> at]

\* the cells of c that a reference shows
Pick(c, at) ==
    CASE Len(at) = 3 -> <<c[at[1]], c[at[2]], c[at[3]]>>
      [] Len(at) = 4 -> <<c[at[1]], c[at[2]], c[at[3]], c[at[4]]>>
      [] OTHER -> [k \in 1..Len(at) |-> c[at[k]]]

\* the array a reference denotes in heap m
Val(m, r) == ArrS(Pick(m[r.buf].c, r.at), m[r.buf].s)

\* arr[k] = v
Store(m, r, k, v) ==
    [m EXCEPT ![r.buf] = [c |-> [@.c EXCEPT ![r.at[k]] = v], s |-> @.s]]

\* a new buffer holding array value a
Alloc(m, a) == Append(m, [c |-> a.c, s |-> a.s])

\* a 4x4 array, row-major, as rotation block, last column and bottom row
MatOf(c) ==
    [rot |-> << <<c[1], c[2], c[3]>>, <<c[5], c[6], c[7]>>, <<c[9], c[10], c[11]>> >>,
     col |-> <<c[4], c[8], c[12]>>,
     bottom |-> <<c[13], c[14], c[15], c[16]>>]

Flat(mat) ==
    << mat.rot[1][1], mat.rot[1][2], mat.rot[1][3], mat.col[1],
       mat.rot[2][1], mat.rot[2][2], mat.rot[2][3], mat.col[2],
       mat.rot[3][1], mat.rot[3][2], mat.rot[3][3], mat.col[3],
       mat.bottom[1], mat.bottom[2], mat.bottom[3], mat.bottom[4] >>

\* the results of a call: the heap after it and what it returns
Out(m, d, rets, dret) == [mem |-> m, dicts |-> d, rets |-> rets, dret |-> dret]

\* two fresh arrays holding a position and an orientation
FreshPair(m, pos, orn) ==
    [mem |-> Alloc(Alloc(m, Arr(pos)), orn),
     rets |-> << Ref(Len(m) + 1, Cells3),
                 Ref(Len(m) + 2, IF Len(orn.c) = 4 THEN Cells4 ELSE Cells3) >>]

\* to_relative on the heap: rel_pos is the new array pos_new - pos_old
\* rotated by the matrix product of line 174, rel_orn the array as_euler
\* allocates
H_to_relative(m, d, a) ==
    LET Ret(f) == Out(f.mem, d, f.rets, 0)
        Fresh(r) == Ret(FreshPair(m, r.val[1], r.val[2]))
    IN  Fresh(to_relative(Val(m, a[1]).c, Val(m, a[2]), Val(m, a[3]).c, Val(m, a[4])))

H_to_tcp_frame(m, d, a) ==
    LET Ret(f) == Out(f.mem, d, f.rets, 0)
        Fresh(r) == Ret(FreshPair(m, r.val[1], r.val[2]))
    IN  Fresh(to_tcp_frame(Val(m, a[1]).c, Val(m, a[2]), Val(m, a[3])))

H_to_world_frame(m, d, a) ==
    LET Ret(f) == Out(f.mem, d, f.rets, 0)
        Fresh(r) == Ret(FreshPair(m, r.val[1], r.val[2]))
    IN  Fresh(to_world_frame(Val(m, a[1]).c, Val(m, a[2]), Val(m, a[3])))

\* to_relative_all_frames: four new arrays
H_to_relative_all_frames(m, d, a) ==
    LET Ret(w, g) == Out(g.mem, d, w.rets \o g.rets, 0)
        Second(r, w) ==
            Ret(w, FreshPair(w.mem, r.val.gripper_frame[1], r.val.gripper_frame[2]))
        First(r) ==
            Second(r, FreshPair(m, r.val.world_frame[1], r.val.world_frame[2]))
    IN  First(to_relative_all_frames(Val(m, a[1]).c, Val(m, a[2]),
                                     Val(m, a[3]).c, Val(m, a[4])))

\* pos_orn_to_matrix: mat = np.eye(4) is a new array, filled by assignment
H_pos_orn_to_matrix(m, d, a) ==
    Out(Alloc(m, Arr(Flat(pos_orn_to_matrix(Val(m, a[1]).c, Val(m, a[2])).val))),
        d, <<Ref(Len(m) + 1, Cells16)>>, 0)

\* matrix_to_pos_orn: orn is the new array as_quat allocates; pos is
\* mat[:3, 3], a basic slice, which numpy returns as a view of mat
H_matrix_to_pos_orn(m, d, a) ==
    LET Ret(pos, orn) == Out(Alloc(m, orn), d, <<pos, Ref(Len(m) + 1, Cells4)>>, 0)
    IN  Ret(Ref(a[1].buf, <<a[1].at[4], a[1].at[8], a[1].at[12]>>),
            matrix_to_pos_orn(MatOf(Val(m, a[1]).c))[2])

H_quat_to_euler(m, d, a) ==
    Out(Alloc(m, quat_to_euler(Val(m, a[1])).val), d, <<Ref(Len(m) + 1, Cells3)>>, 0)

H_euler_to_quat(m, d, a) ==
    Out(Alloc(m, euler_to_quat(Val(m, a[1])).val), d, <<Ref(Len(m) + 1, Cells4)>>, 0)

\* xyz_to_zyx: orn[::-1] is a view of orn
H_xyz_to_zyx(m, d, a) ==
    Out(m, d, <<Ref(a[1].buf, <<a[1].at[3], a[1].at[2], a[1].at[1]>>)>>, 0)

\* the action dict written over the second argument instead of a new dict
H_to_relative_action_dict_in_place(m, d, a) ==
    LET New(f, gripper_action) ==
            [motion |-> <<f.rets[1], f.rets[2], gripper_action>>, ref |-> "rel"]
        Ret(f, gripper_action) ==
            Out(f.mem, [d EXCEPT ![a[2]] = New(f, gripper_action)], f.rets, a[2])
        Fresh(r, gripper_action) ==
            Ret(FreshPair(m, r.val[1], r.val[2]), gripper_action)
        Rel(po, pn) ==
            Fresh(to_relative(Val(m, po[1]).c, Val(m, po[2]),
                              Val(m, pn[1]).c, Val(m, pn[2])), pn[3])
    IN  Rel(d[a[1]].motion, d[a[2]].motion)

\* to_relative_action_dict(prev_action, action): the name action is rebound
\* to a new dict; the gripper action is action["motion"][-1]
H_to_relative_action_dict(m, d, a) ==
    LET New(f, gripper_action) ==
            [motion |-> <<f.rets[1], f.rets[2], gripper_action>>, ref |-> "rel"]
        Ret(f, gripper_action) ==
            Out(f.mem, Append(d, New(f, gripper_action)), f.rets, Len(d) + 1)
        Fresh(r, gripper_action) ==
            Ret(FreshPair(m, r.val[1], r.val[2]), gripper_action)
        Rel(po, pn) ==
            Fresh(to_relative(Val(m, po[1]).c, Val(m, po[2]),
                              Val(m, pn[1]).c, Val(m, pn[2])), pn[3])
    IN  Rel(d[a[1]].motion, d[a[2]].motion)

\* to_relative_action_pos_dict(pos, next_pos, gripper_action)
H_to_relative_action_pos_dict(m, d, a) ==
    LET New(f, gripper_action) ==
            [motion |-> <<f.rets[1], f.rets[2], gripper_action>>, ref |-> "rel"]
        Ret(f, gripper_action) ==
            Out(f.mem, Append(d, New(f, gripper_action)), f.rets, Len(d) + 1)
        Fresh(r, gripper_action) ==
            Ret(FreshPair(m, r.val[1], r.val[2]), gripper_action)
        Rel(pos, next_pos) ==
            Fresh(to_relative(Val(m, pos.tcp_pos).c, Val(m, pos.tcp_orn),
                              Val(m, next_pos.tcp_pos).c, Val(m, next_pos.tcp_orn)),
                  a[3])
    IN  Rel(d[a[1]], d[a[2]])

(* --------------------- callers sharing the heap ------------------------ *)
\* the arrays and dicts the callers start with: two positions, an Euler
\* triple, a unit xyzw quaternion, a 4x4 pose, two action dicts and two
\* robot-state dicts
P0 == Ref(1, Cells3)
P1 == Ref(2, Cells3)
E0 == Ref(3, Cells3)
Q0 == Ref(4, Cells4)
M0 == Ref(5, Cells16)

Mem0 ==
    << [c |-> <<1, 2, 3>>, s |-> 1],
       [c |-> <<3, 1, 2>>, s |-> 1],
       [c |-> <<1, 0, 1>>, s |-> 1],
       [c |-> <<0, 0, 1, 1>>, s |-> 2],
       [c |-> Flat([rot |-> Rx(1), col |-> <<1, 2, 3>>, bottom |-> <<0, 0, 0, 1>>]),
        s |-> 1] >>

Dicts0 ==
    << [motion |-> <<P0, E0, 1>>, ref |-> "abs"],
       [motion |-> <<P1, Q0, -1>>, ref |-> "abs"],
       [tcp_pos |-> P0, tcp_orn |-> E0],
       [tcp_pos |-> P1, tcp_orn |-> Q0] >>

\* the poses (position, orientation) the callers hold
PoseA == <<P0, E0>>
PoseB == <<P1, Q0>>
ActionDicts == {1, 2}
StateDicts == {3, 4}

\* an array the code's rotation arithmetic is exact on
ValidOrn(m, r) ==
    LET v == Val(m, r)
    IN  Len(v.c) = 4 => InCubeGroup(v.c)

ValidMat(m, r) ==
    LET R == MatOf(Val(m, r).c).rot
    IN  MatMul(R, Transpose(R)) = Eye3 /\ Det3(R) = 1

MemInit ==
    /\ mem = Mem0
    /\ dicts = Dicts0
    /\ cpc = [c \in Callers |-> "idle"]
    /\ crec = [c \in Callers |-> NoVal]
    /\ pc = "off" /\ call = NoVal /\ ret = NoVal /\ ret2 = NoVal
    /\ CamIdle

\* caller c's call of fn on arguments a returns: out is the heap after it,
\* argrefs the arrays reachable from the arguments
Returns(c, fn, a, argrefs, out) ==
    /\ mem' = out.mem
    /\ dicts' = out.dicts
    /\ crec' = [crec EXCEPT ![c] =
                  [fn |-> fn, args |-> a, argrefs |-> argrefs,
                   rets |-> out.rets, dret |-> out.dret]]
    /\ cpc' = [cpc EXCEPT ![c] = "returned"]
    /\ UNCHANGED <<libVars, camVars>>

CallToRelative ==
    \E c \in Callers :
        LET a == <<PoseA[1], PoseA[2], PoseB[1], PoseB[2]>>
        IN  /\ cpc[c] = "idle"
            /\ ValidOrn(mem, a[2]) /\ ValidOrn(mem, a[4])
            /\ Returns(c, "to_relative", a, a, H_to_relative(mem, dicts, a))

CallToRelativeAllFrames ==
    \E c \in Callers :
        LET a == <<PoseA[1], PoseA[2], PoseB[1], PoseB[2]>>
        IN  /\ cpc[c] = "idle"
            /\ ValidOrn(mem, a[2]) /\ ValidOrn(mem, a[4])
            /\ Returns(c, "to_relative_all_frames", a, a, H_to_relative_all_frames(mem, dicts, a))

CallToTcpFrame ==
    \E c \in Callers :
        LET a == <<PoseA[1], PoseA[2], PoseB[2]>>
        IN  /\ cpc[c] = "idle"
            /\ ValidOrn(mem, a[2]) /\ ValidOrn(mem, a[3])
            /\ Returns(c, "to_tcp_frame", a, a, H_to_tcp_frame(mem, dicts, a))

CallToWorldFrame ==
    \E c \in Callers :
        LET a == <<PoseA[1], PoseA[2], PoseB[2]>>
        IN  /\ cpc[c] = "idle"
            /\ ValidOrn(mem, a[2]) /\ ValidOrn(mem, a[3])
            /\ Returns(c, "to_world_frame", a, a, H_to_world_frame(mem, dicts, a))

CallPosOrnToMatrix ==
    \E c \in Callers :
        /\ cpc[c] = "idle"
        /\ ValidOrn(mem, PoseB[2])
        /\ Returns(c, "pos_orn_to_matrix", PoseB, PoseB,
                   H_pos_orn_to_matrix(mem, dicts, PoseB))

CallMatrixToPosOrn ==
    \E c \in Callers :
        /\ cpc[c] = "idle"
        /\ ValidMat(mem, M0)
        /\ Returns(c, "matrix_to_pos_orn", <<M0>>, <<M0>>,
                   H_matrix_to_pos_orn(mem, dicts, <<M0>>))

CallQuatToEuler ==
    \E c \in Callers :
        /\ cpc[c] = "idle"
        /\ ValidOrn(mem, Q0)
        /\ Returns(c, "quat_to_euler", <<Q0>>, <<Q0>>,
                   H_quat_to_euler(mem, dicts, <<Q0>>))

CallEulerToQuat ==
    \E c \in Callers :
        /\ cpc[c] = "idle"
        /\ Returns(c, "euler_to_quat", <<E0>>, <<E0>>,
                   H_euler_to_quat(mem, dicts, <<E0>>))

CallXyzToZyx ==
    \E c \in Callers :
        /\ cpc[c] = "idle"
        /\ Returns(c, "xyz_to_zyx", <<E0>>, <<E0>>, H_xyz_to_zyx(mem, dicts, <<E0>>))

CallToRelativeActionDict ==
    \E c \in Callers, prev \in ActionDicts, act \in ActionDicts :
        /\ cpc[c] = "idle"
        /\ ValidOrn(mem, dicts[prev].motion[2])
        /\ ValidOrn(mem, dicts[act].motion[2])
        /\ Returns(c, "to_relative_action_dict", <<prev, act>>,
                   << dicts[prev].motion[1], dicts[prev].motion[2],
                      dicts[act].motion[1], dicts[act].motion[2] >>,
                   H_to_relative_action_dict(mem, dicts, <<prev, act>>))

CallToRelativeActionPosDict ==
    \E c \in Callers, pos \in StateDicts, nxt \in StateDicts, g \in {-1, 1} :
        /\ cpc[c] = "idle"
        /\ ValidOrn(mem, dicts[pos].tcp_orn)
        /\ ValidOrn(mem, dicts[nxt].tcp_orn)
        /\ Returns(c, "to_relative_action_pos_dict", <<pos, nxt, g>>,
                   << dicts[pos].tcp_pos, dicts[pos].tcp_orn,
                      dicts[nxt].tcp_pos, dicts[nxt].tcp_orn >>,
                   H_to_relative_action_pos_dict(mem, dicts, <<pos, nxt, g>>))

\* the cell a caller assigns to: arr[0] of a vector, mat[0, 3] of a pose
WriteCells(r) == IF Len(r.at) = 16 THEN {4} ELSE {1}

\* caller c assigns to a cell of array r, one of the sides ("arg" or "ret")
\* of the call that returned to it
Writes(c, side, r) ==
    \E k \in WriteCells(r) :
        /\ mem' = Store(mem, r, k, Val(mem, r).c[k] + 4)
        /\ crec' = [crec EXCEPT ![c] =
                      [fn |-> @.fn, args |-> @.args, argrefs |-> @.argrefs,
                       rets |-> @.rets, dret |-> @.dret,
                       wrote |-> [side |-> side, ref |-> r, k |-> k]]]
        /\ cpc' = [cpc EXCEPT ![c] = "written"]
        /\ UNCHANGED <<dicts, libVars, camVars>>

\* a later write to a returned value
WriteReturned ==
    \E c \in Callers :
        /\ cpc[c] = "returned"
        /\ \E i \in 1..Len(crec[c].rets) : Writes(c, "ret", crec[c].rets[i])

\* a later write to an argument
WriteArgument ==
    \E c \in Callers :
        /\ cpc[c] = "returned"
        /\ \E i \in 1..Len(crec[c].argrefs) : Writes(c, "arg", crec[c].argrefs[i])

MemNext ==
    \/ CallToRelative
    \/ CallToRelativeAllFrames
    \/ CallToTcpFrame
    \/ CallToWorldFrame
    \/ CallPosOrnToMatrix
    \/ CallMatrixToPosOrn
    \/ CallQuatToEuler
    \/ CallEulerToQuat
    \/ CallXyzToZyx
    \/ CallToRelativeActionDict
    \/ CallToRelativeActionPosDict
    \/ WriteReturned
    \/ WriteArgument

SpecMem == MemInit /\ [][MemNext]_vars

(* ------------------------ properties of the heap ----------------------- *)
\* the functions C8 names: the orientation conversions, the pose
\* composition and decomposition, and the frame conversions
CoreFns ==
    {"quat_to_euler", "euler_to_quat", "pos_orn_to_matrix", "matrix_to_pos_orn",
     "to_relative", "to_relative_all_frames", "to_tcp_frame", "to_world_frame"}

\* the arrays in refs read the same before and after the step
SameArrays(refs) == \A i \in 1..Len(refs) : Val(mem', refs[i]) = Val(mem, refs[i])

\* caller c's call returns in this step
CallStep(c) == cpc[c] = "idle" /\ cpc'[c] = "returned"

\* caller c writes to side ("arg" or "ret") of its call in this step
WriteStep(c, side) ==
    /\ cpc[c] = "returned" /\ cpc'[c] = "written"
    /\ crec'[c].wrote.side = side

\* C8: a call of a core transform function leaves its arguments as they
\* were and returns only arrays in buffers that did not exist before the
\* call; a later write to one of its returned arrays changes none of its
\* arguments, and a later write to one of its arguments changes none of its
\* returned arrays, whatever the other caller does in between.
C8_NoSharing ==
    [][\A c \in Callers :
          /\ (CallStep(c) /\ crec'[c].fn \in CoreFns) =>
                /\ SameArrays(crec'[c].argrefs)
                /\ \A i \in 1..Len(crec'[c].rets) : crec'[c].rets[i].buf > Len(mem)
          /\ (WriteStep(c, "ret") /\ crec[c].fn \in CoreFns) =>
                SameArrays(crec[c].argrefs)
          /\ (WriteStep(c, "arg") /\ crec[c].fn \in CoreFns) =>
                SameArrays(crec[c].rets)]_vars

DictFns == {"to_relative_action_dict", "to_relative_action_pos_dict"}

\* the dict caller c's call returned, and the relative motion of the poses
\* the call was given, both read in the heap after the call
Returned(c) == dicts'[crec'[c].dret]

RelOfArgs(c) ==
    to_relative(Val(mem, crec'[c].argrefs[1]).c, Val(mem, crec'[c].argrefs[2]),
                Val(mem, crec'[c].argrefs[3]).c, Val(mem, crec'[c].argrefs[4])).val

\* the gripper actions a record carries: the last entry of its motion; a
\* robot-state record carries none
GripperActionOf(rec) ==
    IF "motion" \in DOMAIN rec THEN {rec.motion[3]} ELSE {}

\* what both helpers do alike: a new dict tagged "rel" whose motion is
\* to_relative of the first and the second record's pose, and every dict and
\* array that existed before the call unchanged
RelRecord(c) ==
    /\ crec'[c].dret = Len(dicts) + 1
    /\ Returned(c).ref = "rel"
    /\ Val(mem', Returned(c).motion[1]).c = RelOfArgs(c)[1]
    /\ Val(mem', Returned(c).motion[2]) = RelOfArgs(c)[2]
    /\ \A i \in 1..Len(dicts) : dicts'[i] = dicts[i]
    /\ \A b \in 1..Len(mem) : mem'[b] = mem[b]

\* C9 as stated: for both helpers the gripper-action component is the
\* second record's gripper-action value.
C9_Original ==
    [][\A c \in Callers :
          (CallStep(c) /\ crec'[c].fn \in DictFns) =>
              /\ RelRecord(c)
              /\ Returned(c).motion[3] \in GripperActionOf(dicts[crec'[c].args[2]])]_vars

\* C9: both helpers return a new record tagged "rel" whose motion's position
\* and orientation are to_relative of the first and the second record's
\* pose, and modify neither input record; the gripper-action component is
\* the second record's gripper action for to_relative_action_dict and the
\* gripper_action argument for to_relative_action_pos_dict.
C9_ActionDict ==
    [][\A c \in Callers :
          (CallStep(c) /\ crec'[c].fn \in DictFns) =>
              /\ RelRecord(c)
              /\ crec'[c].fn = "to_relative_action_dict" =>
                    Returned(c).motion[3] = dicts[crec'[c].args[2]].motion[3]
              /\ crec'[c].fn = "to_relative_action_pos_dict" =>
                    Returned(c).motion[3] = crec'[c].args[3]]_vars

\* both helpers have returned, on different records, and the record that
\* to_relative_action_dict returned carries the gripper action of its
\* second argument, which differs from that of its first
C9_Witness ==
    /\ cpc[1] = "returned" /\ crec[1].fn = "to_relative_action_dict"
    /\ crec[1].args = <<1, 2>>
    /\ dicts[crec[1].dret].ref = "rel"
    /\ dicts[crec[1].dret].motion[3] = dicts[2].motion[3]
    /\ dicts[1].motion[3] # dicts[2].motion[3]
    /\ cpc[2] = "returned" /\ crec[2].fn = "to_relative_action_pos_dict"
    /\ dicts[crec[2].dret].motion[3] = crec[2].args[3]

(* =================== robot_io/cams/camera_manager.py ================== *)
\* calls of the manager's methods a run makes at most
MaxCalls == 3

Robots == {"panda", "kuka"}

\* ThreadedCamera(cfg) or hydra.utils.instantiate(cfg): the camera of a role
Camera(role, threaded_cameras) ==
    [kind |-> "camera", role |-> role, threaded |-> threaded_cameras]

\* what a camera answers: the values are the camera's own
get_extrinsic_calibration(cam, robot_name) ==
    [of |-> cam.role, what |-> "extrinsic", robot |-> robot_name]

get_intrinsics(cam) == [of |-> cam.role, what |-> "intrinsics"]

get_image(cam, n) ==
    << [of |-> cam.role, what |-> "rgb", frame |-> n],
       [of |-> cam.role, what |-> "depth", frame |-> n] >>

\* a method call made on a camera object
Asked(cam, method) == [cam |-> cam.role, method |-> method]

\* CameraManager.__init__
CameraManager(use_gripper_cam, use_static_cam, threaded_cameras) ==
    [gripper_cam |-> IF use_gripper_cam
                     THEN Camera("gripper", threaded_cameras) ELSE None,
     static_cam |-> IF use_static_cam
                    THEN Camera("static", threaded_cameras) ELSE None,
     obs |-> None]

\* a dict as a function on its keys
NoEntries == [k \in {} |-> None]

\* CameraManager.get_images: obs and the calls made on the cameras
get_images(self, n) ==
    LET Static(obs, asked) ==
            IF self.static_cam # None
            THEN [obs |-> ("rgb_static" :> get_image(self.static_cam, n)[1])
                          @@ ("depth_static" :> get_image(self.static_cam, n)[2])
                          @@ obs,
                  asked |-> Append(asked, Asked(self.static_cam, "get_image"))]
            ELSE [obs |-> obs, asked |-> asked]
    IN  IF self.gripper_cam # None
        THEN Static(("rgb_gripper" :> get_image(self.gripper_cam, n)[1])
                    @@ ("depth_gripper" :> get_image(self.gripper_cam, n)[2]),
                    <<Asked(self.gripper_cam, "get_image")>>)
        ELSE Static(NoEntries, <<>>)

\* save_calibration with the static entries read from the static camera
save_calibration_from_static(self, robot_name) ==
    LET Static(camera_info, asked) ==
            IF self.static_cam # None
            THEN [res |-> Ok(("static_extrinsic_calibration" :>
                                 get_extrinsic_calibration(self.static_cam, robot_name))
                             @@ ("static_intrinsics" :>
                                 get_intrinsics(self.static_cam))
                             @@ camera_info),
                  asked |-> asked \o
                            << Asked(self.static_cam, "get_extrinsic_calibration"),
                               Asked(self.static_cam, "get_intrinsics") >>]
            ELSE [res |-> Ok(camera_info), asked |-> asked]
    IN  IF self.gripper_cam # None
        THEN Static(("gripper_extrinsic_calibration" :>
                        get_extrinsic_calibration(self.gripper_cam, robot_name))
                    @@ ("gripper_intrinsics" :> get_intrinsics(self.gripper_cam)),
                    << Asked(self.gripper_cam, "get_extrinsic_calibration"),
                       Asked(self.gripper_cam, "get_intrinsics") >>)
        ELSE Static(NoEntries, <<>>)

\* CameraManager.save_calibration up to np.savez: camera_info, or the
\* exception raised, and the calls made on the cameras.  Lines 46 and 47
\* call self.gripper_cam; on None the attribute lookup raises
\* AttributeError.
save_calibration(self, robot_name) ==
    LET Static(camera_info, asked) ==
            IF self.static_cam # None
            THEN IF self.gripper_cam = None
                 THEN [res |-> Raise("AttributeError"), asked |-> asked]
                 ELSE [res |-> Ok(("static_extrinsic_calibration" :>
                                      get_extrinsic_calibration(self.gripper_cam,
                                                                robot_name))
                                  @@ ("static_intrinsics" :>
                                      get_intrinsics(self.gripper_cam))
                                  @@ camera_info),
                       asked |-> asked \o
                                 << Asked(self.gripper_cam, "get_extrinsic_calibration"),
                                    Asked(self.gripper_cam, "get_intrinsics") >>]
            ELSE [res |-> Ok(camera_info), asked |-> asked]
    IN  IF self.gripper_cam # None
        THEN Static(("gripper_extrinsic_calibration" :>
                        get_extrinsic_calibration(self.gripper_cam, robot_name))
                    @@ ("gripper_intrinsics" :> get_intrinsics(self.gripper_cam)),
                    << Asked(self.gripper_cam, "get_extrinsic_calibration"),
                       Asked(self.gripper_cam, "get_intrinsics") >>)
        ELSE Static(NoEntries, <<>>)

\* CameraManager.render: the windows shown; "rgb_gripper" in None raises
\* TypeError
render(self) ==
    IF self.obs = None
    THEN Raise("TypeError")
    ELSE Ok({k \in {"rgb_gripper", "rgb_static"} : k \in DOMAIN self.obs})

\* the number of method calls made so far
CallNo == outcome.seq

\* a manager after construction; no file camera_info.npz yet
CamInit ==
    /\ \E use_gripper_cam \in BOOLEAN, use_static_cam \in BOOLEAN,
          threaded_cameras \in BOOLEAN :
          mgr = CameraManager(use_gripper_cam, use_static_cam, threaded_cameras)
    /\ queries = <<>>
    /\ archive = None
    /\ outcome = [seq |-> 0, call |-> "__init__", res |-> Ok(None)]
    /\ pc = "off" /\ call = NoVal /\ ret = NoVal /\ ret2 = NoVal
    /\ MemIdle

GetImages ==
    /\ CallNo < MaxCalls
    /\ mgr' = [mgr EXCEPT !.obs = get_images(mgr, CallNo + 1).obs]
    /\ queries' = queries \o get_images(mgr, CallNo + 1).asked
    /\ outcome' = [seq |-> CallNo + 1, call |-> "get_images",
                   res |-> Ok(get_images(mgr, CallNo + 1).obs)]
    /\ UNCHANGED <<archive, libVars, memVars>>

\* np.savez("camera_info.npz", **camera_info) replaces the archive; it is
\* reached only if no line before it raised
SaveCalibration ==
    \E robot_name \in Robots :
        /\ CallNo < MaxCalls
        /\ queries' = queries \o save_calibration(mgr, robot_name).asked
        /\ archive' = IF IsOk(save_calibration(mgr, robot_name).res)
                      THEN save_calibration(mgr, robot_name).res.val
                      ELSE archive
        /\ outcome' = [seq |-> CallNo + 1, call |-> "save_calibration",
                       robot_name |-> robot_name,
                       res |-> IF IsOk(save_calibration(mgr, robot_name).res)
                               THEN Ok(None)
                               ELSE save_calibration(mgr, robot_name).res]
        /\ UNCHANGED <<mgr, libVars, memVars>>

Render ==
    /\ CallNo < MaxCalls
    /\ outcome' = [seq |-> CallNo + 1, call |-> "render", res |-> render(mgr)]
    /\ UNCHANGED <<mgr, queries, archive, libVars, memVars>>

CamNext ==
    \/ GetImages
    \/ SaveCalibration
    \/ Render

SpecCam == CamInit /\ [][CamNext]_vars

(* -------------------- properties of save_calibration ------------------- *)
\* save_calibration returns or raises in this step
SaveStep == outcome'.seq # outcome.seq /\ outcome'.call = "save_calibration"

\* the calls this step made on the cameras
NewQueries == {queries'[i] : i \in (Len(queries) + 1)..Len(queries')}

\* C10: whenever a static camera is present, save_calibration makes no call
\* on it: with a gripper camera the two static entries of the archive are
\* the gripper camera's answers, and without a gripper camera the call
\* raises and leaves the archive as it was, unwritten.
C10_StaticFromGripper ==
    [][(SaveStep /\ mgr.static_cam # None) =>
          /\ \A q \in NewQueries : q.cam # "static"
          /\ mgr.gripper_cam # None =>
                /\ IsOk(outcome'.res)
                /\ archive'["static_extrinsic_calibration"] =
                       get_extrinsic_calibration(mgr.gripper_cam, outcome'.robot_name)
                /\ archive'["static_intrinsics"] = get_intrinsics(mgr.gripper_cam)
                /\ Cardinality({i \in (Len(queries) + 1)..Len(queries') :
                                   queries'[i].cam = "gripper"}) = 4
          /\ mgr.gripper_cam = None =>
                /\ outcome'.res = Raise("AttributeError")
                /\ archive' = archive /\ archive = None
                /\ queries' = queries]_vars

\* a static and a gripper camera are configured, get_images has asked the
\* static camera for an image, and save_calibration has written an archive
\* whose static entries carry the gripper camera's values
C10_Witness ==
    /\ mgr.static_cam # None /\ mgr.gripper_cam # None
    /\ outcome.call = "save_calibration" /\ IsOk(outcome.res)
    /\ archive # None
    /\ archive["static_intrinsics"].of = "gripper"
    /\ \E i \in 1..Len(queries) : queries[i].cam = "static"

====
